---------------------------- MODULE Spec2Model ----------------------------
(***************************************************************************)
(* Model of the WeChat publisher's remote API client:                      *)
(*   - TokenManager (src/src/wechat_api.py) with the durable token cache   *)
(*     of Config (src/src/config.py),                                      *)
(*   - WeChatAPI._request, upload_image, add_draft and the retry_on_error  *)
(*     decorator (src/src/wechat_api.py),                                  *)
(*   - ImageProcessor.process_html (src/src/uploader.py).                  *)
(*   - MarkdownConverter._preprocess_markdown and convert                  *)
(*     (src/src/converter.py), ThemeManager.get_theme_css                  *)
(*     (src/src/theme_manager.py), the convert command (src/src/cli.py).   *)
(*   - Config.get, set, get_appid and init_config (src/src/config.py).    *)
(* Time is the integer part of time.time().                                *)
(***************************************************************************)
EXTENDS Integers, Sequences, FiniteSets, TLC

\* ------------------------------------------------------------------ bounds
MaxTime == 3
MaxSerial == 3
MaxImgs == 2
MaxUploads == 2
MaxLines == 3
MaxBlocks == 2
MaxFiles == 3

\* --------------------------------------------------------------- constants
SafetyMargin == 300
MaxRetries == 3
NetworkErrCode == -1

\* Server TTLs (expires_in) the exchange may answer: they leave one or two
\* seconds of validity after the safety margin.
TTLs == {SafetyMargin + 1, SafetyMargin + 2}

Accounts == {"A", "B"}
Managers == {"m1", "m2"}

\* config.get_appid(): the account the configuration (or WECHAT_APPID) names.
ConfigAppid == "A"

\* A token value is opaque to the client. The model writes it as what the
\* server knows of it: the account it was issued to, when, with which
\* expires_in, and a serial that tells apart tokens issued alike.
NoToken == [acct |-> "none", at |-> 0, ttl |-> 0, n |-> 0]

VARIABLES
  now,        \* int(time.time())
  mgrAppid,   \* TokenManager.appid of each manager
  mem,        \* TokenManager._access_token / _expires_at of each manager
  durable,    \* the token file (~/.wechat-mp-publisher/token.json)
  cleared,    \* manager whose clear_cache was not yet followed by a stored token
  tokRes,     \* what the last get_token call did and returned
  call,       \* the API operation in progress (single-threaded client)
  proc,       \* the process_html call in progress: soup, position, lists
  url_cache,  \* ImageProcessor._url_cache: resolved path -> hosted URL
  uploads,    \* server side: the source whose file each upload_image sent
  draft,      \* the add_draft call being prepared: arguments and JSON body
  pre,        \* the _preprocess_markdown call: the text's lines and the result's
  conv,       \* a MarkdownConverter: theme_css, the parser's state, the convert call
  theme,      \* a get_theme_css call: the name, the files that exist, the result
  batch,      \* a run of the convert command: files, counters, results, exit status
  page,       \* the styling steps of convert: the parsed elements, step by step
  cfg         \* Config: DEFAULT_CONFIG, an instance, the configuration file, the last call

toolVars == <<draft, pre, conv, theme, batch, page, cfg>>
vars == <<now, mgrAppid, mem, durable, cleared, tokRes, call, proc, url_cache, uploads, toolVars>>
clientVars == <<now, mgrAppid, mem, durable, cleared, tokRes, call>>
htmlVars == <<proc, url_cache, uploads>>

NoMem == [token |-> NoToken, expires_at |-> 0]
NoDurable == [present |-> FALSE, access_token |-> NoToken, expires_at |-> 0, appid |-> "none"]
NoRes == [mgr |-> "none", ok |-> FALSE, token |-> NoToken, code |-> 0, source |-> "none",
          unexpired |-> FALSE, stale |-> FALSE, reused |-> FALSE, afterClear |-> FALSE]

\* ------------------------------------------------------- TokenManager

\* expires_at as _fetch_token (line 119) and save_token (config.py 134)
\* compute it from a clock reading t and the server's expires_in.
ExpiresAt(t, ttl) == t + ttl - SafetyMargin

\* get_token line 87: the in-memory token is present and unexpired.
MemValidMutant(m) == mem[m].token # NoToken /\ now <= mem[m].expires_at
MemValid(m) == mem[m].token # NoToken /\ now < mem[m].expires_at

\* get_token lines 92-94: the durable record is present, carries this
\* manager's appid and is unexpired.
DurableValidMutant(m) ==
  /\ durable.present
  /\ durable.appid = mgrAppid[m]
DurableValid(m) ==
  /\ durable.present
  /\ durable.appid = mgrAppid[m]
  /\ now < durable.expires_at

\* Which branch of get_token serves the call.
Source(m, force) ==
  IF ~force /\ MemValid(m) THEN "memory"
  ELSE IF ~force /\ DurableValid(m) THEN "durable"
  ELSE "exchange"

\* Answers of the credential exchange endpoint (_fetch_token lines 112-131).
ExchangeErrCodes == {40013, 45009}
ExchangeAnswers ==
  [kind : {"token"}, ttl : TTLs, code : {0}]
    \cup [kind : {"errcode"}, ttl : {0}, code : ExchangeErrCodes]
    \cup [kind : {"nocode", "net"}, ttl : {0}, code : {0}]

\* Seconds that may pass between the clock reading of _fetch_token (line
\* 119) and the one of save_token (config.py line 134), which a successful
\* exchange makes in turn.
SaveDelays(ans) == IF ans.kind = "token" THEN {0, 1} ELSE {0}

\* The error code _fetch_token raises for a failed exchange.
FetchErrCode(ans) ==
  CASE ans.kind = "errcode" -> ans.code
    [] ans.kind = "nocode" -> -1               \* data.get("errcode", -1)
    [] OTHER -> NetworkErrCode                 \* requests.RequestException

\* Every cached copy this manager could read has expires_at in the past.
StaleCache(m) ==
  /\ mem[m].token # NoToken \/ durable.present
  /\ mem[m].token # NoToken => now >= mem[m].expires_at
  /\ durable.present => now >= durable.expires_at

CachedTokens(m) ==
  (IF mem[m].token # NoToken THEN {mem[m].token} ELSE {})
    \cup (IF durable.present THEN {durable.access_token} ELSE {})

\* Token values the client still holds somewhere.
Referenced ==
  {mem[m].token : m \in Managers} \cup {durable.access_token, tokRes.token}
    \cup {call.attached}

\* The token a successful exchange by account acct answers at time t: a
\* value the client does not hold yet.
Serials(acct, t, ttl) ==
  {k \in 1..MaxSerial : [acct |-> acct, at |-> t, ttl |-> ttl, n |-> k] \notin Referenced}
NewToken(acct, t, ttl) ==
  [acct |-> acct, at |-> t, ttl |-> ttl,
   n |-> CHOOSE k \in Serials(acct, t, ttl) : \A j \in Serials(acct, t, ttl) : k <= j]

\* The value get_token returns (or the error it raises), with what it did.
GetTokenResult(m, force, ans) ==
  LET src == Source(m, force)
      base == [NoRes EXCEPT !.mgr = m, !.source = src,
                            !.stale = (~force /\ StaleCache(m)),
                            !.afterClear = (cleared = m)]
  IN CASE src = "memory" ->
            [base EXCEPT !.ok = TRUE, !.token = mem[m].token,
                         !.unexpired = (now < mem[m].expires_at),
                         !.reused = TRUE]
       [] src = "durable" ->
            [base EXCEPT !.ok = TRUE, !.token = durable.access_token,
                         !.unexpired = (now < durable.expires_at),
                         !.reused = TRUE]
       [] OTHER ->
            IF ans.kind = "token"
            THEN LET tok == NewToken(mgrAppid[m], now, ans.ttl) IN
                 [base EXCEPT !.ok = TRUE, !.token = tok,
                              !.unexpired = (now < ExpiresAt(now, ans.ttl)),
                              !.reused = (tok \in CachedTokens(m))]
            ELSE [base EXCEPT !.code = FetchErrCode(ans)]

\* Config.save_token: the record written to the token file. The appid it
\* stores is the configuration's, read by config.get_appid().
SavedToken(tok, t, ttl) ==
  [present |-> TRUE, access_token |-> tok, expires_at |-> ExpiresAt(t, ttl),
   appid |-> ConfigAppid]

\* TokenManager.get_token(force_refresh) with _fetch_token. d is the time
\* that passes between the clock reading of _fetch_token (line 119) and the
\* one of save_token (config.py line 134).
get_token(m, force, ans, d) ==
  LET src == Source(m, force) IN
  /\ (src = "exchange" /\ ans.kind = "token") =>
       Serials(mgrAppid[m], now, ans.ttl) # {} /\ now + d <= MaxTime
  /\ tokRes' = GetTokenResult(m, force, ans)
  /\ CASE src = "memory" ->
            UNCHANGED <<now, mem, durable, cleared>>
       [] src = "durable" ->
            /\ mem' = [mem EXCEPT ![m] = [token |-> durable.access_token,
                                          expires_at |-> durable.expires_at]]
            /\ UNCHANGED <<now, durable, cleared>>
       [] OTHER ->
            IF ans.kind = "token"
            THEN /\ LET tok == NewToken(mgrAppid[m], now, ans.ttl) IN
                    /\ mem' = [mem EXCEPT ![m] = [token |-> tok,
                                                  expires_at |-> ExpiresAt(now, ans.ttl)]]
                    /\ durable' = SavedToken(tok, now + d, ans.ttl)
                 /\ now' = now + d
                 /\ cleared' = "none"
            ELSE UNCHANGED <<now, mem, durable, cleared>>

\* Config.clear_token: the token file is removed.
ClearedDurableMutant == durable
ClearedDurable == NoDurable

\* TokenManager.clear_cache.
clear_cache(m) ==
  /\ mem' = [mem EXCEPT ![m] = NoMem]
  /\ durable' = ClearedDurable
  /\ cleared' = m

\* ------------------------------------------------------------ WeChatAPI
\* The operations of the client. upload_image and add_draft are wrapped by
\* retry_on_error; all but upload_image send through _request.
Ops == {"upload_image", "add_draft", "update_draft", "get_draft", "delete_draft",
        "list_drafts", "get_draft_count"}
Wrapped(op) == op \in {"upload_image", "add_draft"}
UsesRequest(op) == op # "upload_image"

\* retry_on_error's retryable_errors (line 16).
RetryableErrorsMutant == {42001, 45009}
RetryableErrorsWide == {40001, 42001, 45009, 40007}
RetryableErrors == {40001, 42001, 45009}

\* errcodes the server answers an API request with.
ServerErrCodes == {40001, 42001, 45009, 40007}

\* Answers to one request: data without error, an errcode, a transport
\* failure (requests.RequestException: timeout, DNS, reset, HTTP status), and
\* for the upload endpoint a body with neither url nor errcode.
ApiAnswers(op) ==
  [kind : {"ok", "net"}, code : {0}]
    \cup [kind : {"errcode"}, code : ServerErrCodes]
    \cup (IF op = "upload_image" THEN [kind : {"nocode"}, code : {0}] ELSE {})

\* The call in progress: the position in the code (pc), the wrapper's
\* retry_count, the pending exception (exc), the result (outcome, errcode),
\* and counts of what the call has done so far. firstRejected: the current
\* invocation's first request was answered 40001; all40001: so was every
\* request of the call; exchFailed: a credential exchange of the call failed;
\* cause: whether the error that ended the call came from the transport or
\* from an answer of the server; rejected: the token of the call's last
\* request that the server answered 40001 or 42001; exchangedSince: a
\* credential exchange of the call has succeeded since that answer.
NoCall ==
  [op |-> "none", mgr |-> "none", pc |-> "idle", retry_count |-> 0, invocations |-> 0,
   sends |-> 0, resends |-> 0, innerClears |-> 0, wrapClears |-> 0, reExchanges |-> 0,
   waits |-> 0, attached |-> NoToken, exc |-> 0, excCause |-> "none",
   outcome |-> "none", errcode |-> 0, cause |-> "none", firstRejected |-> FALSE,
   all40001 |-> TRUE, exchFailed |-> FALSE, rejected |-> NoToken, exchangedSince |-> FALSE]

Idle == call.pc = "idle"

\* The wrapped function (or _request) returns: the call is over.
Returned(c) == [c EXCEPT !.pc = "done", !.outcome = "ok"]

\* A WeChatAPIError(code) is raised in the function body: the wrapper's
\* except clause gets it (lines 33-34), an unwrapped operation's caller does.
Raised(c, code, why) ==
  IF Wrapped(c.op)
  THEN [c EXCEPT !.pc = "caught", !.exc = code, !.excCause = why]
  ELSE [c EXCEPT !.pc = "done", !.outcome = "api_error", !.errcode = code, !.cause = why]

\* An exception that is no WeChatAPIError leaves the function body: neither
\* the wrapper nor _request catches it.
RaisedRaw(c, why) == [c EXCEPT !.pc = "done", !.outcome = "exception", !.cause = why]

\* The cause of a get_token failure: a transport failure or a server answer.
FetchCause(ans) == IF ans.kind = "net" THEN "transport" ELSE "server"

\* retry_on_error line 37: retry this error?
ShouldRetryMutant(code, retry_count) == code \in RetryableErrors /\ retry_count <= MaxRetries
ShouldRetry(code, retry_count) == code \in RetryableErrors /\ retry_count < MaxRetries

\* The server's answer says the token is no good: 40001 invalid credential,
\* 42001 access token expired.
TokenRejected(ans) == ans.kind = "errcode" /\ ans.code \in {40001, 42001}
NoteAnswer(c, ans) ==
  IF TokenRejected(ans) THEN [c EXCEPT !.rejected = c.attached, !.exchangedSince = FALSE] ELSE c
NoteToken(c, r) ==
  IF r.ok /\ r.source = "exchange" THEN [c EXCEPT !.exchangedSince = TRUE] ELSE c

\* A client operation is called (the wrapper's first invocation of the body).
StartCall ==
  /\ Idle
  /\ \E op \in Ops :
       call' = [NoCall EXCEPT !.op = op, !.mgr = "m1", !.pc = "token", !.invocations = 1]
  /\ UNCHANGED <<now, mgrAppid, mem, durable, cleared, tokRes, htmlVars, toolVars>>

\* _request line 172 / upload_image line 217: attach the current token.
AttachToken ==
  /\ call.pc = "token"
  /\ \E ans \in ExchangeAnswers : \E d \in SaveDelays(ans) :
       /\ get_token(call.mgr, FALSE, ans, d)
       /\ LET r == GetTokenResult(call.mgr, FALSE, ans) IN
          call' = IF r.ok
                  THEN [NoteToken(call, r) EXCEPT !.pc = "send", !.attached = r.token]
                  ELSE Raised([call EXCEPT !.exchFailed = TRUE], r.code, FetchCause(ans))
  /\ UNCHANGED <<mgrAppid, htmlVars, toolVars>>

\* What the first request's answer makes of the call: _request lines
\* 174-203 up to the 40001 branch, upload_image lines 219-231.
AfterSend(c, ans) ==
  LET s == [NoteAnswer(c, ans) EXCEPT !.sends = @ + 1,
                     !.firstRejected = (ans.kind = "errcode" /\ ans.code = 40001),
                     !.all40001 = @ /\ ans.kind = "errcode" /\ ans.code = 40001]
  IN IF UsesRequest(c.op)
     THEN CASE ans.kind = "ok" -> Returned(s)
            [] ans.kind = "net" -> Raised(s, NetworkErrCode, "transport")
            [] ans.code = 40001 -> [s EXCEPT !.pc = "clear"]
            [] OTHER -> Raised(s, ans.code, "server")
     ELSE CASE ans.kind = "ok" -> Returned(s)
            [] ans.kind = "net" -> RaisedRaw(s, "transport")
            [] ans.kind = "nocode" -> Raised(s, -1, "server")
            [] OTHER -> Raised(s, ans.code, "server")

SendRequest ==
  /\ call.pc = "send"
  /\ \E ans \in ApiAnswers(call.op) : call' = AfterSend(call, ans)
  /\ UNCHANGED <<now, mgrAppid, mem, durable, cleared, tokRes, htmlVars, toolVars>>

\* _request line 188: the answer was 40001, the token is invalidated.
InvalidateToken ==
  /\ call.pc = "clear"
  /\ clear_cache(call.mgr)
  /\ call' = [call EXCEPT !.pc = "retoken", !.innerClears = @ + 1]
  /\ UNCHANGED <<now, mgrAppid, tokRes, htmlVars, toolVars>>

\* _request line 189: a token for the re-send.
RefreshToken ==
  /\ call.pc = "retoken"
  /\ \E ans \in ExchangeAnswers : \E d \in SaveDelays(ans) :
       /\ get_token(call.mgr, FALSE, ans, d)
       /\ LET r == GetTokenResult(call.mgr, FALSE, ans)
              c == [NoteToken(call, r) EXCEPT
                      !.reExchanges = @ + (IF r.source = "exchange" THEN 1 ELSE 0)]
          IN call' = IF r.ok
                     THEN [c EXCEPT !.pc = "resend", !.attached = r.token]
                     ELSE Raised([c EXCEPT !.exchFailed = TRUE], r.code, FetchCause(ans))
  /\ UNCHANGED <<mgrAppid, htmlVars, toolVars>>

\* What the re-send's answer makes of the call: _request lines 190-203.
AfterResend(c, ans) ==
  LET s == [NoteAnswer(c, ans) EXCEPT !.sends = @ + 1, !.resends = @ + 1,
                     !.all40001 = @ /\ ans.kind = "errcode" /\ ans.code = 40001]
  IN CASE ans.kind = "ok" -> Returned(s)
       [] ans.kind = "net" -> Raised(s, NetworkErrCode, "transport")
       [] OTHER -> Raised(s, ans.code, "server")

ResendRequest ==
  /\ call.pc = "resend"
  /\ \E ans \in ApiAnswers(call.op) : call' = AfterResend(call, ans)
  /\ UNCHANGED <<now, mgrAppid, mem, durable, cleared, tokRes, htmlVars, toolVars>>

\* retry_on_error lines 33-51, the except clause: wait, invalidate the token
\* on 40001 and invoke the function again, or re-raise.
HandleError ==
  /\ call.pc = "caught"
  /\ IF ShouldRetry(call.exc, call.retry_count)
     THEN /\ call' = [call EXCEPT !.pc = "token", !.waits = @ + 1,
                                  !.wrapClears = @ + (IF call.exc = 40001 THEN 1 ELSE 0),
                                  !.retry_count = @ + 1, !.invocations = @ + 1,
                                  !.exc = 0, !.excCause = "none"]
          /\ IF call.exc = 40001
             THEN clear_cache(call.mgr)
             ELSE UNCHANGED <<mem, durable, cleared>>
     ELSE /\ call' = [call EXCEPT !.pc = "done", !.outcome = "api_error",
                                  !.errcode = call.exc, !.cause = call.excCause]
          /\ UNCHANGED <<mem, durable, cleared>>
  /\ UNCHANGED <<now, mgrAppid, tokRes, htmlVars, toolVars>>

\* The caller has the result (or the exception).
FinishCall ==
  /\ call.pc = "done"
  /\ call' = NoCall
  /\ UNCHANGED <<now, mgrAppid, mem, durable, cleared, tokRes, htmlVars, toolVars>>

\* ------------------------------------------------- add_draft's JSON body
\* The arguments of add_draft (lines 234-237). The values are a few strings,
\* the empty one among them, and the two comment flags.
RequiredFields == {"title", "content"}
OptionalFields == {"author", "digest", "content_source_url", "thumb_media_id"}
FlagFields == {"need_open_comment", "only_fans_can_comment"}
DraftFields == RequiredFields \cup OptionalFields \cup FlagFields
Strings == {"", " ", "text"}
StringArgs ==
  { a \in [RequiredFields \cup OptionalFields -> Strings] :
      \A f \in (RequiredFields \cup OptionalFields) \ {"author"} : a[f] # " " }
DraftArgs ==
  { [f \in DraftFields |-> IF f \in FlagFields THEN fl[f] ELSE st[f]] :
      fl \in [FlagFields -> {0, 1}], st \in StringArgs }

\* Python's truth value of a string: "if author:" (lines 261-268).
TruthyMutant(v) == TRUE
Truthy(v) == v # ""

\* add_draft lines 255-272: the article dictionary.
Article(a) ==
  [f \in RequiredFields \cup {g \in OptionalFields : Truthy(a[g])} \cup FlagFields |-> a[f]]

\* add_draft line 274: the body given to _request.
DraftData(a) == [articles |-> <<Article(a)>>]

NoDraft == [pc |-> "idle", args |-> <<>>, data |-> <<>>]

\* add_draft lines 254-274, up to the request.
BuildDraft ==
  /\ draft.pc = "idle"
  /\ \E a \in DraftArgs : draft' = [pc |-> "built", args |-> a, data |-> DraftData(a)]
  /\ UNCHANGED <<clientVars, htmlVars, pre, conv, theme, batch, page, cfg>>

\* add_draft lines 280-281: the body went out with the request.
PostDraft ==
  /\ draft.pc = "built"
  /\ draft' = NoDraft
  /\ UNCHANGED <<clientVars, htmlVars, pre, conv, theme, batch, page, cfg>>

\* ------------------------------------- MarkdownConverter._preprocess_markdown
\* A line is the sequence of its characters; a text is the sequence of its
\* lines (split and join on the newline are each other's inverse). "bt"
\* stands for the backtick character.
Backticks3 == <<"bt", "bt", "bt">>
Backticks4 == <<"bt", "bt", "bt", "bt">>
Tildes3 == <<"~", "~", "~">>
Lines ==
  { Backticks3,
    Backticks4,
    Tildes3,
    <<"~", "~", "a", "~", "~">>,
    <<"a">>,
    <<" ", "bt", "bt", "bt", "a", " ">> }
MdTexts == UNION { [1..n -> Lines] : n \in 1..MaxLines }

\* str.strip() for lines whose only whitespace is the blank.
RECURSIVE LStrip(_)
LStrip(l) == IF l # <<>> /\ Head(l) = " " THEN LStrip(Tail(l)) ELSE l
RECURSIVE RStrip(_)
RStrip(l) == IF l # <<>> /\ l[Len(l)] = " " THEN RStrip(SubSeq(l, 1, Len(l) - 1)) ELSE l
Strip(l) == RStrip(LStrip(l))

StartsWith(l, prefix) == Len(l) >= Len(prefix) /\ SubSeq(l, 1, Len(prefix)) = prefix

\* line 72: the line toggles in_code_block.
TogglesCodeBlock(line) == StartsWith(Strip(line), Backticks3)

\* re.sub of line 79, pattern ~~(.*?)~~ : the leftmost "~~"
\* that has a later "~~" opens, the nearest later "~~" closes, and the
\* search goes on after it.
TildesAt(l, i) == i + 1 <= Len(l) /\ l[i] = "~" /\ l[i + 1] = "~"
RECURSIVE SubDel(_)
SubDel(l) ==
  LET opens == { i \in 1..Len(l) : TildesAt(l, i) /\ \E j \in (i + 2)..Len(l) : TildesAt(l, j) }
  IN IF opens = {} THEN l
     ELSE LET i == CHOOSE x \in opens : \A y \in opens : x <= y
              j == CHOOSE x \in (i + 2)..Len(l) :
                     TildesAt(l, x) /\ \A y \in (i + 2)..Len(l) : TildesAt(l, y) => x <= y
          IN SubSeq(l, 1, i - 1) \o <<"<del>">> \o SubSeq(l, i + 2, j - 1) \o <<"</del>">>
               \o SubDel(SubSeq(l, j + 2, Len(l)))

\* lines 68-85: the loop over the lines, from line k on.
RECURSIVE PreprocessFrom(_, _, _)
PreprocessFrom(lines, k, in_code_block) ==
  IF k > Len(lines) THEN <<>>
  ELSE LET in_code == IF TogglesCodeBlock(lines[k]) THEN ~in_code_block ELSE in_code_block
       IN <<IF in_code THEN lines[k] ELSE SubDel(lines[k])>>
            \o PreprocessFrom(lines, k + 1, in_code)

\* _preprocess_markdown.
PreprocessMarkdown(lines) == PreprocessFrom(lines, 1, FALSE)

NoPre == [pc |-> "idle", text |-> <<>>, result |-> <<>>]

Preprocess ==
  /\ pre.pc = "idle"
  /\ \E text \in MdTexts :
       pre' = [pc |-> "done", text |-> text, result |-> PreprocessMarkdown(text)]
  /\ UNCHANGED <<clientVars, htmlVars, draft, conv, theme, batch, page, cfg>>

\* convert line 99 has the result.
ReturnPreprocessed ==
  /\ pre.pc = "done"
  /\ pre' = NoPre
  /\ UNCHANGED <<clientVars, htmlVars, draft, conv, theme, batch, page, cfg>>

\* ------------------------------------------------ MarkdownConverter.convert
\* A Markdown text by its blocks: a reference definition "[x]: url", a
\* paragraph using the reference "[x]", a plain paragraph, a fenced code
\* block with its language hint ("" for none) and its code, and a block
\* nested so deep that the parser raises RecursionError on it.
RefDef(n) == [kind |-> "refdef", name |-> n, lang |-> "", code |-> ""]
RefUse(n) == [kind |-> "refuse", name |-> n, lang |-> "", code |-> ""]
Para == [kind |-> "para", name |-> "", lang |-> "", code |-> ""]
Deep == [kind |-> "deep", name |-> "", lang |-> "", code |-> ""]
Code(lang, code) == [kind |-> "code", name |-> "", lang |-> lang, code |-> code]
Blocks ==
  { RefDef("x"), RefUse("x"), Para, Deep,
    Code("python", "print(1)"), Code("nolang", "print(1)"),
    Code("", "print(1)"), Code("", "@@@") }
MdDocs == UNION { [1..n -> Blocks] : n \in 1..MaxBlocks }
Titles == {"", "T"}
ThemeSheets == {"", "p { color: #333 }"}

\* An element of the HTML: its tag, its text, for a pre the tag of its
\* child (code, or the div of the highlighter) and the child's language
\* class, and its style attribute.
Elem(tag, text, inner, lang, style) ==
  [tag |-> tag, text |-> text, inner |-> inner, lang |-> lang, style |-> style]

\* md.convert (line 102): a reference definition is stored in md.references
\* and renders nothing, [x] renders a link when the parser knows x, a fenced
\* block renders <pre><code class="language-...">.
RenderBlock(b, references) ==
  CASE b.kind = "refdef" -> Elem("", "", "", "", "")
    [] b.kind = "refuse" -> IF b.name \in references THEN Elem("a", b.name, "", "", "")
                            ELSE Elem("p", b.name, "", "", "")
    [] b.kind = "code"   -> Elem("pre", b.code, "code", b.lang, "")
    [] OTHER             -> Elem("p", "text", "", "", "")
Defined(doc, n) == { doc[k].name : k \in { j \in 1..n : doc[j].kind = "refdef" } }
Deeps(doc) == { k \in DOMAIN doc : doc[k].kind = "deep" }
FirstDeep(doc) == CHOOSE k \in Deeps(doc) : \A j \in Deeps(doc) : k <= j

\* pygments: get_lexer_by_name (line 179) and guess_lexer (line 181) return
\* a lexer or raise ClassNotFound.
KnownLanguages == {"python"}
GuessableCode == {"print(1)"}
Lexer(lang, code) ==
  IF lang # ""
  THEN (IF lang \in KnownLanguages THEN lang ELSE "ClassNotFound")
  ELSE (IF code \in GuessableCode THEN "guessed" ELSE "ClassNotFound")

\* The exceptions the handler of line 193 catches.
CaughtMutant == {}
Caught == {"ClassNotFound"}

PreStyle == "background: #f8f8f8; padding: 16px"

\* _process_code_blocks lines 167-207, for one pre element.
Escapes(e) == e.tag = "pre" /\ Lexer(e.lang, e.text) = "ClassNotFound" /\ "ClassNotFound" \notin Caught
ProcessPre(e) ==
  IF e.tag # "pre" THEN e
  ELSE IF Lexer(e.lang, e.text) = "ClassNotFound"
       THEN [e EXCEPT !.style = PreStyle]
       ELSE [e EXCEPT !.inner = "div", !.lang = "", !.style = PreStyle]

\* _apply_wechat_styles (lines 289-390) for the elements of the model.
ApplyStyle(e) ==
  CASE e.tag = "p" -> [e EXCEPT !.style = "margin: 16px 0"]
    [] e.tag = "a" -> [e EXCEPT !.style = "color: #07c160"]
    [] OTHER       -> e

\* _wrap_article (lines 415-459).
WrapArticle(body, title, css) ==
  [title_tag |-> IF title # "" THEN title ELSE "", style |-> css, article |-> body]

\* The document a converter whose parser knows the given references makes
\* of a text that the parser does not raise on.
ConvertWith(doc, title, css, references) ==
  WrapArticle([k \in DOMAIN doc |->
                 ApplyStyle(ProcessPre(RenderBlock(doc[k], references \cup Defined(doc, Len(doc)))))],
              title, css)

NoHtml == [title_tag |-> "", style |-> "", article |-> <<>>]
NoConv == [pc |-> "none", theme_css |-> "", references |-> {}, doc |-> <<>>, title |-> "",
           html |-> <<>>, result |-> NoHtml]

\* __init__ (lines 21-40): the theme's sheet is read, the parser is new.
NewConverter ==
  /\ conv.pc \in {"none", "idle"}
  /\ \E css \in ThemeSheets : conv' = [NoConv EXCEPT !.pc = "idle", !.theme_css = css]
  /\ UNCHANGED <<clientVars, htmlVars, draft, pre, theme, batch, page, cfg>>

\* convert is called (line 87).
StartConvert ==
  /\ conv.pc = "idle"
  /\ \E doc \in MdDocs, title \in Titles :
       conv' = [conv EXCEPT !.pc = "parse", !.doc = doc, !.title = title,
                            !.html = <<>>, !.result = NoHtml]
  /\ UNCHANGED <<clientVars, htmlVars, draft, pre, theme, batch, page, cfg>>

\* line 102: self.md.convert. The parser stores the references it meets; on
\* a block it cannot parse it raises and convert is left.
ParseMarkdown ==
  /\ conv.pc = "parse"
  /\ IF Deeps(conv.doc) # {}
     THEN conv' = [conv EXCEPT !.pc = "raised",
                     !.references = @ \cup Defined(conv.doc, FirstDeep(conv.doc))]
     ELSE LET refs == conv.references \cup Defined(conv.doc, Len(conv.doc)) IN
          conv' = [conv EXCEPT !.pc = "code", !.references = refs,
                     !.html = [k \in DOMAIN conv.doc |-> RenderBlock(conv.doc[k], refs)]]
  /\ UNCHANGED <<clientVars, htmlVars, draft, pre, theme, batch, page, cfg>>

\* line 105: _process_code_blocks.
ProcessCodeBlocks ==
  /\ conv.pc = "code"
  /\ IF \E k \in DOMAIN conv.html : Escapes(conv.html[k])
     THEN conv' = [conv EXCEPT !.pc = "raised"]
     ELSE conv' = [conv EXCEPT !.pc = "style",
                     !.html = [k \in DOMAIN conv.html |-> ProcessPre(conv.html[k])]]
  /\ UNCHANGED <<clientVars, htmlVars, draft, pre, theme, batch, page, cfg>>

\* lines 107-125: the styles, the wrapping, self.md.reset() and the return.
FinishConvert ==
  /\ conv.pc = "style"
  /\ conv' = [conv EXCEPT !.pc = "returned", !.references = {},
                !.result = WrapArticle([k \in DOMAIN conv.html |-> ApplyStyle(conv.html[k])],
                                       conv.title, conv.theme_css)]
  /\ UNCHANGED <<clientVars, htmlVars, draft, pre, theme, batch, page, cfg>>

\* The caller has the document or the exception; the converter is kept.
ConvertDone ==
  /\ conv.pc \in {"returned", "raised"}
  /\ conv' = [conv EXCEPT !.pc = "idle"]
  /\ UNCHANGED <<clientVars, htmlVars, draft, pre, theme, batch, page, cfg>>

\* ------------------------------------------------ ThemeManager.get_theme_css
\* A theme name by its stem and its suffix; a file by its directory, the
\* name it is made of, and whether ".css" was appended to the name.
ThemeName(stem, suffix) == [stem |-> stem, suffix |-> suffix]
DefaultName == ThemeName("default", "")
ThemeNames ==
  { DefaultName, ThemeName("tech", ""), ThemeName("none", ""),
    ThemeName("my", ".css"), ThemeName("my", ".txt") }
File(dir, name, appended) == [dir |-> dir, name |-> name, appended |-> appended]

NamePath(name) == File("cwd", name, FALSE)                  \* Path(name)
LocalThemePath(name) == File(".themes", name, TRUE)         \* .themes/<name>.css
CustomPath(name) == File("custom_themes", name, TRUE)       \* ~/.wechat-mp-publisher/themes/<name>.css
BuiltinPath(name) == File("themes", name, TRUE)             \* <package>/themes/<name>.css
DefaultPath == File("themes", DefaultName, TRUE)            \* <package>/themes/default.css
CandidateFiles(name) ==
  {NamePath(name), LocalThemePath(name), CustomPath(name), BuiltinPath(name), DefaultPath}

\* read_text: every file has its own content; no file is empty.
ReadText(f) == [of |-> f]
EmptyCss == [of |-> File("", ThemeName("", ""), FALSE)]

\* get_theme_css lines 313-338.
GetThemeCssMutant(name, exists) ==
  IF NamePath(name) \in exists /\ name.suffix = ".css" THEN ReadText(NamePath(name))
  ELSE IF CustomPath(name) \in exists THEN ReadText(CustomPath(name))
  ELSE IF LocalThemePath(name) \in exists THEN ReadText(LocalThemePath(name))
  ELSE IF BuiltinPath(name) \in exists THEN ReadText(BuiltinPath(name))
  ELSE IF DefaultPath \in exists THEN ReadText(DefaultPath)
  ELSE EmptyCss
GetThemeCss(name, exists) ==
  IF NamePath(name) \in exists /\ name.suffix = ".css" THEN ReadText(NamePath(name))
  ELSE IF LocalThemePath(name) \in exists THEN ReadText(LocalThemePath(name))
  ELSE IF CustomPath(name) \in exists THEN ReadText(CustomPath(name))
  ELSE IF BuiltinPath(name) \in exists THEN ReadText(BuiltinPath(name))
  ELSE IF DefaultPath \in exists THEN ReadText(DefaultPath)
  ELSE EmptyCss

NoTheme == [pc |-> "idle", name |-> DefaultName, exists |-> {}, css |-> EmptyCss]

LoadThemeCss ==
  /\ theme.pc = "idle"
  /\ \E name \in ThemeNames : \E exists \in SUBSET CandidateFiles(name) :
       theme' = [pc |-> "done", name |-> name, exists |-> exists,
                 css |-> GetThemeCss(name, exists)]
  /\ UNCHANGED <<clientVars, htmlVars, draft, pre, conv, batch, page, cfg>>

\* _load_theme_css (converter.py line 53) has the sheet.
ThemeCssLoaded ==
  /\ theme.pc = "done"
  /\ theme' = NoTheme
  /\ UNCHANGED <<clientVars, htmlVars, draft, pre, conv, batch, page, cfg>>

\* ------------------------------------------------ cli.convert, batch run
\* What the loop body (cli.py lines 115-224) meets for one file: nothing, or
\* an exception while reading (117), converting (131-132: conversion, theme),
\* saving the preview (157-174), or publishing (184-203): WeChatAPIError from
\* the token exchange or from add_draft, or another exception. An exception
\* in the image pass (137-152) is reported and the body goes on.
Stages == {"none", "read", "convert", "save", "api", "publish"}
FileEvents(to_draft) ==
  { [fails |-> st, images |-> im] :
      st \in (IF to_draft THEN Stages ELSE Stages \ {"api", "publish"}),
      im \in (IF to_draft THEN {"ok", "raise"} ELSE {"ok"}) }

NoBatch == [pc |-> "idle", files |-> 0, idx |-> 0, draft |-> FALSE, success_count |-> 0,
            fail_count |-> 0, results |-> <<>>, events |-> <<>>, listed |-> {}, status |-> 0]

\* lines 208-217: the handlers of the publishing step count the failure,
\* record it and go on with the next file.
PublishFailedMutant(b) ==
  [b EXCEPT !.fail_count = @ + 1,
            !.success_count = @ + 1,
            !.results = Append(@, [file |-> b.idx, status |-> "failed"])]
PublishFailed(b) ==
  [b EXCEPT !.fail_count = @ + 1,
            !.results = Append(@, [file |-> b.idx, status |-> "failed"])]

\* lines 221-224: the handler of the loop body.
FileFailed(b) ==
  [b EXCEPT !.fail_count = @ + 1,
            !.results = Append(@, [file |-> b.idx, status |-> "failed"])]

\* lines 205-206 and 219: the file is done.
FileSucceeded(b) ==
  [b EXCEPT !.success_count = @ + 1,
            !.results = IF b.draft THEN Append(@, [file |-> b.idx, status |-> "success"])
                        ELSE @]

\* lines 87-107: the files are found (sorted(set(files)), at least one).
StartBatch ==
  /\ batch.pc = "idle"
  /\ \E n \in 1..MaxFiles, d \in BOOLEAN :
       batch' = [NoBatch EXCEPT !.pc = "loop", !.files = n, !.idx = 1, !.draft = d]
  /\ UNCHANGED <<clientVars, htmlVars, draft, pre, conv, theme, page, cfg>>

\* lines 109-224: the loop body for file idx.
ProcessFile ==
  /\ batch.pc = "loop"
  /\ batch.idx <= batch.files
  /\ \E ev \in FileEvents(batch.draft) :
       LET b == CASE ev.fails \in {"read", "convert", "save"} -> FileFailed(batch)
                  [] ev.fails \in {"api", "publish"} -> PublishFailed(batch)
                  [] OTHER -> FileSucceeded(batch)
       IN batch' = [b EXCEPT !.idx = @ + 1, !.events = Append(@, ev)]
  /\ UNCHANGED <<clientVars, htmlVars, draft, pre, conv, theme, page, cfg>>

\* lines 226-242: the summary lists the failed results; sys.exit(1) when
\* fail_count > 0.
Summarize ==
  /\ batch.pc = "loop"
  /\ batch.idx > batch.files
  /\ batch' = [batch EXCEPT !.pc = "exited",
                 !.listed = IF batch.fail_count > 0
                            THEN { batch.results[k].file :
                                     k \in { j \in DOMAIN batch.results :
                                               batch.results[j].status = "failed" } }
                            ELSE {},
                 !.status = IF batch.fail_count > 0 THEN 1 ELSE 0]
  /\ UNCHANGED <<clientVars, htmlVars, draft, pre, conv, theme, page, cfg>>

\* The process is gone.
BatchExit ==
  /\ batch.pc = "exited"
  /\ batch' = NoBatch
  /\ UNCHANGED <<clientVars, htmlVars, draft, pre, conv, theme, page, cfg>>

\* ------------------------------------- MarkdownConverter, the styling steps
\* An element with its attributes (a function from the names of the
\* attributes it has) and, for a table, its cells.
NoAttrs == [a \in {} |-> ""]
Attr(name, value) == [a \in {name} |-> value]
With(attrs, name, value) ==
  [a \in DOMAIN attrs \cup {name} |-> IF a = name THEN value ELSE attrs[a]]
Without(attrs, name) == [a \in DOMAIN attrs \ {name} |-> attrs[a]]
Node(tag, text, attrs, cells) == [tag |-> tag, text |-> text, attrs |-> attrs, cells |-> cells]

\* The blocks of the Markdown text: a heading "# text" of some level, a
\* table of n data rows and m columns, and HTML written in the text, which
\* the parser hands on as it is.
Heading(level, text) == [kind |-> "heading", level |-> level, text |-> text, n |-> 0, m |-> 0]
Table(n, m) == [kind |-> "table", level |-> 0, text |-> "", n |-> n, m |-> m]
Html(text) == [kind |-> "html", level |-> 0, text |-> text, n |-> 0, m |-> 0]
HtmlNodes ==
  [ code_foo  |-> Node("code", "x", Attr("class", "foo"), <<>>),
    code_lang |-> Node("code", "x", Attr("class", "language-python"), <<>>),
    p_note    |-> Node("p", "x", With(With(Attr("class", "note"), "id", "n1"), "style", "color: red"), <<>>),
    a_ref     |-> Node("a", "x", With(Attr("href", "http://e.com"), "class", "ext"), <<>>),
    img_pic   |-> Node("img", "", With(Attr("src", "a.png"), "id", "pic"), <<>>) ]
StyleBlocks ==
  { Heading(l, t) : l \in 1..4, t \in {"Title"} } \cup {Heading(1, "Other")}
    \cup { Table(n, m) : n \in 0..2, m \in 1..2 }
    \cup { Html(h) : h \in DOMAIN HtmlNodes }
StyleDocs == UNION { [1..k -> StyleBlocks] : k \in 1..MaxBlocks }

HeadingTag(level) == <<"h1", "h2", "h3", "h4">>[level]

\* self.md.convert (line 102) with the toc and tables extensions: a heading
\* gets an id, a table has m th and n * m td.
ParseBlock(b) ==
  CASE b.kind = "heading" -> Node(HeadingTag(b.level), b.text, Attr("id", b.text), <<>>)
    [] b.kind = "table" ->
         Node("table", "", NoAttrs,
              [c \in 1..(b.m + b.n * b.m) |->
                 Node(IF c <= b.m THEN "th" ELSE "td", "cell", NoAttrs, <<>>)])
    [] OTHER -> HtmlNodes[b.text]

\* _process_code_blocks lines 209-218: code outside pre.
InlineCodeStyle == "background: #f0f0f0"
StyleInlineCode(e) ==
  IF e.tag = "code" THEN [e EXCEPT !.attrs = With(@, "style", InlineCodeStyle)] ELSE e

\* _process_images lines 233-244.
ImgStyle == "max-width: 100%"
ProcessImg(e) ==
  IF e.tag # "img" THEN e
  ELSE LET styled == With(e.attrs, "style", ImgStyle) IN
       [e EXCEPT !.attrs = IF "src" \in DOMAIN styled /\ "data-src" \notin DOMAIN styled
                            THEN With(styled, "data-src", styled["src"]) ELSE styled]

\* _process_tables lines 260-285.
TableStyle == "width: 100%"
ThStyle == "background: #f5f5f5; border: 1px solid #ddd"
TdStyleMutant == ""
TdStyle == "border: 1px solid #ddd"
ProcessTable(e) ==
  IF e.tag # "table" THEN e
  ELSE [e EXCEPT !.attrs = With(@, "style", TableStyle),
                 !.cells = [c \in DOMAIN e.cells |->
                              [e.cells[c] EXCEPT !.attrs =
                                 With(@, "style", IF e.cells[c].tag = "th" THEN ThStyle ELSE TdStyle)]]]

\* _apply_wechat_styles lines 301-400, for the tags of the model.
HeadingStyleMutant(tag) ==
  CASE tag = "h1" -> "font-size: 24px" [] OTHER -> "font-size: 20px"
HeadingStyle(tag) ==
  CASE tag = "h1" -> "font-size: 24px" [] tag = "h2" -> "font-size: 20px"
    [] OTHER -> "font-size: 18px"
WechatStyle(e) ==
  CASE e.tag \in {"h1", "h2", "h3"} -> [e EXCEPT !.attrs = With(@, "style", HeadingStyle(e.tag))]
    [] e.tag = "p" -> IF "style" \in DOMAIN e.attrs THEN e
                      ELSE [e EXCEPT !.attrs = With(@, "style", "margin: 16px 0")]
    [] e.tag = "a" -> [e EXCEPT !.attrs = With(@, "style", "color: #07c160")]
    [] OTHER -> e

\* _clean_html lines 417-423, for one tag.
KeepsClass(tag) == tag = "code"
CleanAttrs(e) ==
  LET no_id == Without(e.attrs, "id") IN
  [e EXCEPT !.attrs = IF KeepsClass(e.tag) THEN no_id ELSE Without(no_id, "class")]
CleanNode(e) ==
  [CleanAttrs(e) EXCEPT !.cells = [c \in DOMAIN e.cells |-> CleanAttrs(e.cells[c])]]

NoPage == [pc |-> "idle", doc |-> <<>>, html |-> <<>>, before |-> <<>>]
Each(html, F(_)) == [k \in DOMAIN html |-> F(html[k])]

\* convert lines 99-105: the text is parsed, code elements are styled.
ParsePage ==
  /\ page.pc = "idle"
  /\ \E doc \in StyleDocs :
       page' = [pc |-> "images", doc |-> doc, before |-> <<>>,
                html |-> [k \in DOMAIN doc |-> StyleInlineCode(ParseBlock(doc[k]))]]
  /\ UNCHANGED <<clientVars, htmlVars, draft, pre, conv, theme, batch, cfg>>

\* convert line 108: _process_images.
ProcessImages ==
  /\ page.pc = "images"
  /\ page' = [page EXCEPT !.pc = "tables", !.html = Each(page.html, ProcessImg)]
  /\ UNCHANGED <<clientVars, htmlVars, draft, pre, conv, theme, batch, cfg>>

\* convert line 111: _process_tables.
ProcessTables ==
  /\ page.pc = "tables"
  /\ page' = [page EXCEPT !.pc = "styles", !.html = Each(page.html, ProcessTable)]
  /\ UNCHANGED <<clientVars, htmlVars, draft, pre, conv, theme, batch, cfg>>

\* convert line 114: _apply_wechat_styles.
ApplyWechatStyles ==
  /\ page.pc = "styles"
  /\ page' = [page EXCEPT !.pc = "clean", !.html = Each(page.html, WechatStyle)]
  /\ UNCHANGED <<clientVars, htmlVars, draft, pre, conv, theme, batch, cfg>>

\* convert line 117: _clean_html; before keeps what it was given.
CleanHtml ==
  /\ page.pc = "clean"
  /\ page' = [page EXCEPT !.pc = "cleaned", !.before = page.html,
                          !.html = Each(page.html, CleanNode)]
  /\ UNCHANGED <<clientVars, htmlVars, draft, pre, conv, theme, batch, cfg>>

\* convert lines 120-125: the content is wrapped and returned.
PageReturned ==
  /\ page.pc = "cleaned"
  /\ page' = NoPage
  /\ UNCHANGED <<clientVars, htmlVars, draft, pre, conv, theme, batch, cfg>>

\* ------------------------------------------------------------------ Config
\* A value of the configuration: a string, None, a dictionary of its own, or
\* the dictionary object that DEFAULT_CONFIG["default"] is (dict.copy() is
\* shallow: the copy's "default" entry is that same object).
StrV(v) == [kind |-> "str", val |-> v]
NoneV == [kind |-> "none"]
DictV(items) == [kind |-> "dict", items |-> items]
SharedV == [kind |-> "shared"]
NoItems == [k \in {} |-> NoneV]
Put(items, k, v) == [x \in DOMAIN items \cup {k} |-> IF x = k THEN v ELSE items[x]]

\* DEFAULT_CONFIG: the "default" section with its string entries, and the
\* top level.
DefaultSection == Put(Put(NoItems, "theme", StrV("default")), "author", StrV(""))
DefaultTop == Put(Put(NoItems, "version", StrV("0.1.0")), "default", SharedV)

IsDict(node) == node.kind \in {"dict", "shared"}
ItemsOf(node, klass) == IF node.kind = "shared" THEN klass ELSE node.items

\* json.dump / json.load: the value with every dictionary written out.
Dumped(node, klass) ==
  IF node.kind = "shared" THEN DictV(klass) ELSE node
DumpedItems(items, klass) == [k \in DOMAIN items |-> Dumped(items[k], klass)]

\* The keys and values of the calls. A key is the sequence of its
\* dot-separated parts.
ConfigKeys ==
  { <<"appid">>, <<"default">>, <<"default", "author">>,
    <<"default", "author", "name">>, <<"extra", "note">> }
ConfigValues == {"", "v"}

\* The process environment seen by one call: the variables derived from
\* keys that are set, with their values. A name is the key and whether it
\* has the WECHAT_ prefix.
EnvName(prefixed, key) == [prefixed |-> prefixed, key |-> key]
Environments(key) ==
  LET names == {EnvName(TRUE, key), EnvName(FALSE, key)} IN
  UNION { [set -> {"", "e1", "e2"}] : set \in SUBSET names }
Getenv(env, name) == IF name \in DOMAIN env THEN StrV(env[name]) ELSE NoneV

\* Python's "a or b" and truth value, for strings and None.
Falsy(v) == v.kind = "none" \/ (v.kind = "str" /\ v.val = "")
Or(a, b) == IF Falsy(a) THEN b ELSE a

\* get: the walk along the key.
RECURSIVE GetFrom(_, _, _, _)
GetFrom(node, keys, default, klass) ==
  IF keys = <<>> THEN Dumped(node, klass)
  ELSE IF IsDict(node) /\ Head(keys) \in DOMAIN ItemsOf(node, klass)
       THEN GetFrom(ItemsOf(node, klass)[Head(keys)], Tail(keys), default, klass)
       ELSE default

\* get: the environment first, then the walk.
EnvValueMutant(env, key) == NoneV
EnvValue(env, key) == Or(Getenv(env, EnvName(TRUE, key)), Getenv(env, EnvName(FALSE, key)))
Get(root, klass, env, key, default) ==
  IF ~Falsy(EnvValue(env, key)) THEN EnvValue(env, key)
  ELSE GetFrom(DictV(root), key, default, klass)

\* get_appid.
GetAppid(root, env) ==
  Or(Getenv(env, EnvName(TRUE, <<"appid">>)),
     IF "appid" \in DOMAIN root THEN root["appid"] ELSE NoneV)

\* set: the walk that creates missing dictionaries and assigns
\* at the last part. Indexing or assigning into a value that is no
\* dictionary raises TypeError. The result is the node after the call, the
\* shared section after the call, and whether it raised.
RECURSIVE SetIn(_, _, _, _)
SetIn(node, keys, value, klass) ==
  IF ~IsDict(node) THEN [raised |-> TRUE, node |-> node, klass |-> klass]
  ELSE LET items == ItemsOf(node, klass)
           k == Head(keys)
           sub == IF Len(keys) = 1
                  THEN [raised |-> FALSE, node |-> value, klass |-> klass]
                  ELSE SetIn(IF k \in DOMAIN items THEN items[k] ELSE DictV(NoItems),
                             Tail(keys), value, klass)
       IN IF sub.raised THEN [raised |-> TRUE, node |-> node, klass |-> klass]
          ELSE IF node.kind = "shared"
               THEN [raised |-> FALSE, node |-> node, klass |-> Put(items, k, sub.node)]
               ELSE [raised |-> FALSE, node |-> DictV(Put(items, k, sub.node)),
                     klass |-> sub.klass]

NoCall_cfg == [op |-> "none", key |-> <<>>, value |-> NoneV, env |-> NoItems,
               default |-> NoneV, result |-> NoneV, raised |-> FALSE, had_file |-> FALSE]
NoCfg == [klass |-> DefaultSection, live |-> FALSE, root |-> NoItems,
          file |-> NoneV, last |-> NoCall_cfg]

\* DEFAULT_CONFIG.copy().
CopyDefaultsMutant == Put(DefaultTop, "default", DictV(DefaultSection))
CopyDefaults == DefaultTop

\* Config(): the file is loaded when there is one (a file is always one
\* that save_config wrote).
NewConfig ==
  /\ cfg' = [cfg EXCEPT !.live = TRUE,
               !.root = IF cfg.file.kind = "dict" THEN cfg.file.items ELSE CopyDefaults,
               !.last = [NoCall_cfg EXCEPT !.op = "new", !.had_file = cfg.file.kind = "dict"]]
  /\ UNCHANGED <<clientVars, htmlVars, draft, pre, conv, theme, batch, page>>

\* get(key, default).
ConfigGet ==
  /\ cfg.live
  /\ \E key \in ConfigKeys, d \in {NoneV, StrV("d")} : \E env \in Environments(key) :
       cfg' = [cfg EXCEPT !.last = [NoCall_cfg EXCEPT !.op = "get", !.key = key, !.env = env,
                                      !.default = d,
                                      !.result = Get(cfg.root, cfg.klass, env, key, d)]]
  /\ UNCHANGED <<clientVars, htmlVars, draft, pre, conv, theme, batch, page>>

\* get_appid().
ConfigGetAppid ==
  /\ cfg.live
  /\ \E env \in Environments(<<"appid">>) :
       cfg' = [cfg EXCEPT !.last = [NoCall_cfg EXCEPT !.op = "get_appid", !.key = <<"appid">>,
                                      !.env = env, !.result = GetAppid(cfg.root, env)]]
  /\ UNCHANGED <<clientVars, htmlVars, draft, pre, conv, theme, batch, page>>

\* set(key, value), save_config included; nothing is saved when it raises.
ConfigSet ==
  /\ cfg.live
  /\ \E key \in ConfigKeys, v \in ConfigValues \ {""} :
       LET r == SetIn(DictV(cfg.root), key, StrV(v), cfg.klass) IN
       cfg' = [cfg EXCEPT !.root = r.node.items,
                 !.klass = r.klass,
                 !.file = IF r.raised THEN @ ELSE DictV(DumpedItems(r.node.items, r.klass)),
                 !.last = [NoCall_cfg EXCEPT !.op = "set", !.key = key, !.value = StrV(v),
                                             !.raised = r.raised]]
  /\ UNCHANGED <<clientVars, htmlVars, draft, pre, conv, theme, batch, page>>

\* init_config(appid, appsecret, author); an empty string is an argument
\* left out.
InitConfig ==
  /\ cfg.live
  /\ \E appid \in ConfigValues, appsecret \in ConfigValues, author \in ConfigValues :
       LET c1 == IF appid # "" THEN Put(CopyDefaults, "appid", StrV(appid)) ELSE CopyDefaults
           c2 == IF appsecret # "" THEN Put(c1, "appsecret", StrV(appsecret)) ELSE c1
           r == IF author # "" THEN SetIn(DictV(c2), <<"default", "author">>, StrV(author), cfg.klass)
                ELSE [raised |-> FALSE, node |-> DictV(c2), klass |-> cfg.klass]
       IN cfg' = [cfg EXCEPT !.root = r.node.items,
                    !.klass = r.klass,
                    !.file = DictV(DumpedItems(r.node.items, r.klass)),
                    !.last = [NoCall_cfg EXCEPT !.op = "init_config", !.value = StrV(author)]]
  /\ UNCHANGED <<clientVars, htmlVars, draft, pre, conv, theme, batch, page>>

\* The configuration file is removed (another home directory, a clean-up).
RemoveConfigFile ==
  /\ cfg.file.kind = "dict"
  /\ cfg' = [cfg EXCEPT !.file = NoneV, !.last = NoCall_cfg]
  /\ UNCHANGED <<clientVars, htmlVars, draft, pre, conv, theme, batch, page>>

\* ------------------------------------------------------- ImageProcessor
\* An image source (a URL or a local path) is written by its parts: the
\* scheme ("" for a local path), the host, and the segments of the path.
\* id numbers the hosted URLs that upload_image returns.
Src(scheme, host, path) == [scheme |-> scheme, host |-> host, path |-> path, id |-> 0]
EmptySrc == Src("", "", <<>>)

MediaMarkersMutant == {"mmbizurl.cn"}

\* The strings process_html looks for (line 72).
MediaMarkers == {"mmbiz.qpic.cn", "mmbizurl.cn"}

\* Python's "marker in src": the marker occurs somewhere in the text.
Contains(src, marker) ==
  \/ src.host = marker
  \/ \E i \in DOMAIN src.path : src.path[i] = marker

\* process_html line 72: the image is taken to be on the media host.
SkippedAsHosted(src) == \E mk \in MediaMarkers : Contains(src, mk)

\* The sources of the documents: none, on the media host, on another host
\* under a path that names the media host, two remote files of one name, an
\* existing relative file, a missing absolute file, a missing relative file
\* under a directory named like the media host.
Srcs ==
  { EmptySrc,
    Src("https://", "mmbiz.qpic.cn", <<"x.png">>),
    Src("https://", "example.com", <<"mmbiz.qpic.cn", "a.png">>),
    Src("https://", "example.com", <<"a.png">>),
    Src("http://", "other.org", <<"a.png">>),
    Src("", "", <<"img", "a.png">>),
    Src("", "", <<"/", "srv", "gone.png">>),
    Src("", "", <<"mmbiz.qpic.cn", "gone.png">>) }

\* The local files that exist (absolute, or relative to base_path).
Files == { <<"img", "a.png">> }

\* upload_image's return value for the k-th uploaded file.
HostedUrl(k) == [scheme |-> "https://", host |-> "mmbiz.qpic.cn", path |-> <<"hosted">>, id |-> k]

NoPath == <<>>
SupportedNames == {"a.png", "x.png", "gone.png"}   \* names with a SUPPORTED_FORMATS suffix

\* _download_image: the temporary file a fetched URL is written to, named by
\* the last segment of the URL's path (lines 174-198), or nothing when the
\* fetch fails. dl is "fail" or the answer's Content-Type.
DownloadOutcomes == {"fail", "jpeg", "png", "gif", "other"}
TempName(src, dl) ==
  LET name == IF src.path = <<>> THEN "downloaded_image.jpg" ELSE src.path[Len(src.path)]
  IN IF name \in SupportedNames \/ name = "downloaded_image.jpg" THEN name
     ELSE CASE dl = "png" -> "image.png" [] dl = "gif" -> "image.gif" [] OTHER -> "image.jpg"
DownloadImage(src, dl) ==
  IF dl = "fail" THEN NoPath ELSE <<"/", "home", ".wechat-mp-publisher", "temp", TempName(src, dl)>>

\* _resolve_image_path (lines 135-157).
ResolveImagePath(src, dl) ==
  IF src.scheme \in {"http://", "https://"} THEN DownloadImage(src, dl)
  ELSE IF src.path[1] = "/"
       THEN (IF src.path \in Files THEN src.path ELSE NoPath)
       ELSE (IF src.path \in Files THEN <<"/", "base">> \o src.path ELSE NoPath)

\* An img element of the parsed document; orig keeps the src it came with.
Img(src) == [src |-> src, data_src |-> src, orig |-> src, removed |-> FALSE]
Docs == UNION { [1..n -> Srcs] : n \in 0..MaxImgs }

NoProc == [pc |-> "idle", soup |-> <<>>, i |-> 0, success_list |-> <<>>, fail_list |-> <<>>,
           remove_failed |-> FALSE]

MarkFailedMutant(p) ==
  [p EXCEPT !.fail_list = Append(@, p.soup[p.i].src),
            !.soup[p.i].removed = p.remove_failed,
            !.i = Len(p.soup) + 1]

\* lines 79-82 and 115-119: the image is a failure.
MarkFailed(p) ==
  [p EXCEPT !.fail_list = Append(@, p.soup[p.i].src),
            !.soup[p.i].removed = p.remove_failed,
            !.i = @ + 1]

\* lines 110-113: the image's src is replaced.
MarkUploaded(p, url) ==
  [p EXCEPT !.success_list = Append(@, p.soup[p.i].src),
            !.soup[p.i].src = url,
            !.soup[p.i].data_src = url,
            !.i = @ + 1]

\* process_html line 85: the resolved path is a key of _url_cache.
InUrlCacheMutant(path) == FALSE
InUrlCache(path) == path \in DOMAIN url_cache

\* process_html lines 62-64: parse the document.
StartProcessHtml ==
  /\ proc.pc = "idle"
  /\ \E doc \in Docs, rf \in BOOLEAN :
       proc' = [NoProc EXCEPT !.pc = "loop", !.soup = [k \in DOMAIN doc |-> Img(doc[k])],
                              !.i = 1, !.remove_failed = rf]
  /\ UNCHANGED <<clientVars, url_cache, uploads, toolVars>>

\* process_html lines 66-119: one img element. up is what compressing and
\* uploading the file comes to: upload_image's hosted URL, or an exception.
ProcessImage ==
  /\ proc.pc = "loop"
  /\ proc.i <= Len(proc.soup)
  /\ \E dl \in DownloadOutcomes, up \in {"ok", "raise"} :
       LET src == proc.soup[proc.i].src IN
       IF src = EmptySrc \/ SkippedAsHosted(src)
       THEN /\ proc' = [proc EXCEPT !.i = @ + 1]
            /\ UNCHANGED <<url_cache, uploads>>
       ELSE LET path == ResolveImagePath(src, dl) IN
            IF path = NoPath
            THEN /\ proc' = MarkFailed(proc)
                 /\ UNCHANGED <<url_cache, uploads>>
            ELSE IF InUrlCache(path)
            THEN /\ proc' = MarkUploaded(proc, url_cache[path])
                 /\ UNCHANGED <<url_cache, uploads>>
            ELSE IF up = "ok"
            THEN /\ Len(uploads) < MaxUploads
                 /\ LET url == HostedUrl(Len(uploads) + 1) IN
                    /\ proc' = MarkUploaded(proc, url)
                    /\ url_cache' = [q \in DOMAIN url_cache \cup {path} |->
                                       IF q = path THEN url ELSE url_cache[q]]
                 /\ uploads' = Append(uploads, src)
            ELSE /\ proc' = MarkFailed(proc)
                 /\ UNCHANGED <<url_cache, uploads>>
  /\ UNCHANGED <<clientVars, toolVars>>

\* process_html line 121: str(soup) and the two lists are returned.
ReturnHtml ==
  /\ proc.pc = "loop"
  /\ proc.i > Len(proc.soup)
  /\ proc' = [proc EXCEPT !.pc = "returned"]
  /\ UNCHANGED <<clientVars, url_cache, uploads, toolVars>>

\* The caller has the result; the processor keeps its cache.
FinishProcessHtml ==
  /\ proc.pc = "returned"
  /\ proc' = NoProc
  /\ UNCHANGED <<clientVars, url_cache, uploads, toolVars>>

\* ---------------------------------------------------------------- actions
Tick ==
  /\ now < MaxTime
  /\ now' = now + 1
  /\ UNCHANGED <<mgrAppid, mem, durable, cleared, tokRes, call, htmlVars, toolVars>>

GetToken ==
  /\ Idle
  /\ \E m \in Managers, force \in BOOLEAN, ans \in ExchangeAnswers : \E d \in SaveDelays(ans) :
       get_token(m, force, ans, d)
  /\ UNCHANGED <<mgrAppid, call, htmlVars, toolVars>>

ClearCache ==
  /\ Idle
  /\ \E m \in Managers : clear_cache(m)
  /\ UNCHANGED <<now, mgrAppid, tokRes, call, htmlVars, toolVars>>

TokenInit ==
  /\ now = 0
  /\ mem = [m \in Managers |-> NoMem]
  /\ durable = NoDurable
  /\ cleared = "none"
  /\ tokRes = NoRes
  /\ call = NoCall
  /\ proc = NoProc
  /\ url_cache = [q \in {} |-> EmptySrc]
  /\ uploads = <<>>
  /\ draft = NoDraft
  /\ pre = NoPre
  /\ conv = NoConv
  /\ theme = NoTheme
  /\ batch = NoBatch
  /\ page = NoPage
  /\ cfg = NoCfg

\* Two clients (WeChatAPI objects) of one process: m1 takes its appid from the
\* configuration, m2 is given one explicitly (WeChatAPI.__init__ line 146).
InitToken ==
  /\ TokenInit
  /\ mgrAppid \in [Managers -> Accounts]
  /\ mgrAppid["m1"] = ConfigAppid

NextToken ==
  \/ Tick
  \/ GetToken
  \/ ClearCache

SpecToken == InitToken /\ [][NextToken]_vars

\* One client whose appid is the configuration's, making API calls.
Init ==
  /\ TokenInit
  /\ mgrAppid = [m \in Managers |-> ConfigAppid]

Next ==
  \/ Tick
  \/ StartCall
  \/ AttachToken
  \/ SendRequest
  \/ InvalidateToken
  \/ RefreshToken
  \/ ResendRequest
  \/ HandleError
  \/ FinishCall

Spec == Init /\ [][Next]_vars

\* One ImageProcessor handling documents.
NextHtml ==
  \/ StartProcessHtml
  \/ ProcessImage
  \/ ReturnHtml
  \/ FinishProcessHtml

SpecHtml == Init /\ [][NextHtml]_vars

\* add_draft building its request body.
NextDraft ==
  \/ BuildDraft
  \/ PostDraft

SpecDraft == Init /\ [][NextDraft]_vars

\* The strikethrough preprocessor applied to Markdown texts.
NextPreprocess ==
  \/ Preprocess
  \/ ReturnPreprocessed

SpecPreprocess == Init /\ [][NextPreprocess]_vars

\* Converters and the convert calls made on them.
NextConvert ==
  \/ NewConverter
  \/ StartConvert
  \/ ParseMarkdown
  \/ ProcessCodeBlocks
  \/ FinishConvert
  \/ ConvertDone

SpecConvert == Init /\ [][NextConvert]_vars

\* The theme manager asked for style sheets.
NextTheme ==
  \/ LoadThemeCss
  \/ ThemeCssLoaded

SpecTheme == Init /\ [][NextTheme]_vars

\* Batch runs of the convert command.
NextBatch ==
  \/ StartBatch
  \/ ProcessFile
  \/ Summarize
  \/ BatchExit

SpecBatch == Init /\ [][NextBatch]_vars

\* The styling steps of convert applied to parsed texts.
NextStyle ==
  \/ ParsePage
  \/ ProcessImages
  \/ ProcessTables
  \/ ApplyWechatStyles
  \/ CleanHtml
  \/ PageReturned

SpecStyle == Init /\ [][NextStyle]_vars

\* Config objects of one process, their calls, and the configuration file.
NextConfig ==
  \/ NewConfig
  \/ ConfigGet
  \/ ConfigGetAppid
  \/ ConfigSet
  \/ InitConfig
  \/ RemoveConfigFile

SpecConfig == Init /\ [][NextConfig]_vars

\* ------------------------------------------------- claims on the token

TokenOfOwnAccount ==
  tokRes.ok => tokRes.token.acct = mgrAppid[tokRes.mgr]

\* C6: clear_cache leaves neither the in-memory token nor the durable
\* record, and the manager's next get_token makes a credential exchange.
ClearThenFreshExchange ==
  /\ cleared # "none" => mem[cleared].token = NoToken /\ ~durable.present
  /\ tokRes.afterClear => tokRes.source = "exchange" /\ ~tokRes.reused
ClearedThenFetched ==
  /\ tokRes.afterClear
  /\ tokRes.ok
  /\ tokRes.token.n > 1

\* ------------------------------------------------ claims on the client
Done == call.pc = "done"

\* C1 as stated: one add_draft call whose requests are all answered 40001
\* (its credential exchanges succeeding) requests the draft endpoint exactly
\* twice and then raises 40001.
DraftRequestedTwice ==
  (Done /\ call.op = "add_draft" /\ call.all40001 /\ ~call.exchFailed) =>
    (call.sends = 2 /\ call.outcome = "api_error" /\ call.errcode = 40001)

\* C1 as amended: each invocation of add_draft's body requests the endpoint
\* at most twice, the second time after one invalidation by _request; the
\* retry wrapper invokes the body again on 40001, so when every answer is
\* 40001 and every credential exchange succeeds the call requests the
\* endpoint 2 * (max_retries + 1) = 8 times and only then raises 40001.
DraftRequestedTwicePerInvocation ==
  /\ call.op = "add_draft" =>
       /\ call.sends <= 2 * call.invocations
       /\ call.resends <= call.innerClears
       /\ call.innerClears <= call.invocations
  /\ (Done /\ call.op = "add_draft" /\ call.all40001 /\ ~call.exchFailed) =>
       /\ call.sends = 8
       /\ call.invocations = 4
       /\ call.innerClears = 4
       /\ call.wrapClears = 3
       /\ call.outcome = "api_error" /\ call.errcode = 40001
DraftRejectedThroughout ==
  Done /\ call.op = "add_draft" /\ call.all40001 /\ ~call.exchFailed /\ call.sends = 8

\* C2 as stated: a 40001 answer to the first request of an operation sent
\* through _request causes exactly one invalidation, one credential exchange
\* and one re-send.
RequestResentOnce ==
  (Done /\ call.op # "none" /\ ~Wrapped(call.op) /\ call.firstRejected) =>
    (call.innerClears = 1 /\ call.reExchanges = 1 /\ call.resends = 1)

\* C2 as amended: such an answer causes exactly one invalidation and one
\* credential exchange; when the exchange succeeds the call is re-sent
\* exactly once and the re-send's outcome ends the operation, when the
\* exchange fails its error is raised and nothing is re-sent. A first answer
\* other than 40001 causes neither invalidation nor re-send.
RequestResentOnceIfExchanged ==
  (call.op # "none" /\ ~Wrapped(call.op)) =>
    /\ (Done /\ call.firstRejected) =>
         /\ call.innerClears = 1
         /\ call.reExchanges = 1
         /\ IF call.exchFailed
            THEN call.resends = 0 /\ call.sends = 1 /\ call.outcome = "api_error"
            ELSE call.resends = 1 /\ call.sends = 2
    /\ (Done /\ ~call.firstRejected) => call.innerClears = 0 /\ call.resends = 0
    /\ call.resends >= 1 => Done /\ call.resends = 1
    /\ call.invocations = 1
RequestResentAndServed ==
  /\ Done
  /\ call.op = "get_draft"
  /\ call.firstRejected
  /\ call.resends = 1
  /\ call.outcome = "ok"

\* Steps left to a call: the position within the invocation and the
\* invocations the wrapper may still make.
Rank(pc) ==
  CASE pc = "token" -> 6 [] pc = "send" -> 5 [] pc = "clear" -> 4 [] pc = "retoken" -> 3
    [] pc = "resend" -> 2 [] pc = "caught" -> 1 [] OTHER -> 0
Measure(c) == 7 * (4 - c.invocations) + Rank(c.pc)

\* C7: a call of upload_image or add_draft invokes the wrapped function at
\* most max_retries + 1 = 4 times and every step brings it nearer its end;
\* the function is invoked again only after an error whose code is 40001,
\* 42001 or 45009, and the error the caller gets is the last invocation's.
RetryBounded ==
  /\ [](Wrapped(call.op) =>
          /\ call.invocations <= 4
          /\ call.retry_count = call.invocations - 1
          /\ Measure(call) >= 0)
  /\ [][(call.op # "none" /\ call'.op = call.op /\ call' # call) =>
          /\ Measure(call') < Measure(call)
          /\ call'.invocations > call.invocations =>
               (call.pc = "caught" /\ call.exc \in {40001, 42001, 45009})
          /\ (call.pc = "caught" /\ call'.pc = "done") =>
               (call'.outcome = "api_error" /\ call'.errcode = call.exc)]_vars
RetriesExhausted ==
  /\ Done
  /\ call.op = "upload_image"
  /\ call.invocations = 4
  /\ call.outcome = "api_error"
  /\ call.errcode = 45009

\* C8: an error whose code is none of 40001, 42001, 45009 is raised to the
\* caller by the invocation that met it: the wrapper neither waits, nor
\* invalidates the token, nor invokes the function again; an error with one
\* of these codes is retried whenever retries are left.
FatalErrorNotRetried ==
  /\ [][(call.pc = "caught" /\ call.exc \notin {40001, 42001, 45009} /\ call' # call) =>
          /\ call'.pc = "done"
          /\ call'.outcome = "api_error" /\ call'.errcode = call.exc
          /\ call'.invocations = call.invocations
          /\ call'.waits = call.waits
          /\ call'.wrapClears = call.wrapClears
          /\ mem' = mem /\ durable' = durable]_vars
  /\ [][(call.pc = "caught" /\ call.exc \in {40001, 42001, 45009}
           /\ call.retry_count < 3 /\ call' # call) =>
          call'.invocations = call.invocations + 1 /\ call'.waits = call.waits + 1]_vars
  /\ []((Done /\ Wrapped(call.op) /\ call.outcome = "api_error"
           /\ call.errcode \notin {40001, 42001, 45009} /\ call.retry_count = 0) =>
          (call.invocations = 1 /\ call.waits = 0 /\ call.wrapClears = 0))
FatalErrorRaised ==
  /\ Done
  /\ call.op = "add_draft"
  /\ call.outcome = "api_error"
  /\ call.errcode = 40007
  /\ call.invocations = 1

\* C9: an operation that ends on a transport failure raises WeChatAPIError
\* with code -1, and an operation raises WeChatAPIError with code -1 only
\* when it ended on a transport failure.
TransportFailureIsMinusOne ==
  Done =>
    /\ call.cause = "transport" => (call.outcome = "api_error" /\ call.errcode = -1)
    /\ (call.outcome = "api_error" /\ call.errcode = -1) => call.cause = "transport"

\* ------------------------------------------- claims on the image pass
\* The source names the platform's media host as its host.
PointsAtMediaHost(src) ==
  src.scheme \in {"http://", "https://"} /\ src.host \in {"mmbiz.qpic.cn", "mmbizurl.cn"}

\* C10: with remove_failed set, every img element of the returned HTML
\* that has a src either pointed at the media host before the call or has
\* as src a hosted URL that upload_image returned.
NoFailedImageRemains ==
  (proc.pc = "returned" /\ proc.remove_failed) =>
    \A k \in DOMAIN proc.soup :
      (~proc.soup[k].removed /\ proc.soup[k].src # EmptySrc) =>
        \/ PointsAtMediaHost(proc.soup[k].orig)
        \/ \E u \in 1..Len(uploads) : proc.soup[k].src = HostedUrl(u)

InList(x, list) == \E j \in DOMAIN list : list[j] = x
OnImage == proc.pc = "loop" /\ proc.i <= Len(proc.soup)

\* The source is a local path naming no existing file.
MissingLocal(src) == src.scheme = "" /\ src # EmptySrc /\ src.path \notin Files

\* C11: with remove_failed set, an image whose src is a missing local file
\* is absent from the returned HTML, its src is in the failure list and not
\* in the success list.
MissingImageDropped ==
  (proc.pc = "returned" /\ proc.remove_failed) =>
    \A k \in DOMAIN proc.soup :
      MissingLocal(proc.soup[k].orig) =>
        /\ proc.soup[k].removed
        /\ InList(proc.soup[k].orig, proc.fail_list)
        /\ ~InList(proc.soup[k].orig, proc.success_list)

\* C12: an image that fails (unresolved, or an exception while compressing
\* or uploading) is appended to the failure list and nothing else changes:
\* the loop goes on with the next image, the success list, the URL cache,
\* the uploads and the other elements are as before, and process_html
\* returns after it has gone through every image.
ImageFailureContained ==
  /\ [][(OnImage /\ proc'.fail_list # proc.fail_list) =>
          /\ proc'.pc = "loop"
          /\ proc'.i = proc.i + 1
          /\ proc'.fail_list = Append(proc.fail_list, proc.soup[proc.i].src)
          /\ proc'.success_list = proc.success_list
          /\ url_cache' = url_cache
          /\ uploads' = uploads
          /\ \A k \in DOMAIN proc.soup : k # proc.i => proc'.soup[k] = proc.soup[k]
          /\ proc'.soup[proc.i].src = proc.soup[proc.i].src]_vars
  /\ [](proc.pc = "returned" =>
          /\ proc.i = Len(proc.soup) + 1
          /\ \A k \in DOMAIN proc.soup :
               \/ proc.soup[k].orig = EmptySrc
               \/ SkippedAsHosted(proc.soup[k].orig)
               \/ InList(proc.soup[k].orig, proc.fail_list)
               \/ InList(proc.soup[k].orig, proc.success_list))
ImageFailedThenNextUploaded ==
  /\ proc.pc = "returned"
  /\ Len(proc.soup) = 2
  /\ proc.soup[1].orig = Src("", "", <<"img", "a.png">>)
  /\ proc.fail_list = <<proc.soup[1].orig>>
  /\ proc.success_list = <<proc.soup[2].orig>>

\* The path an image resolves to when its file exists or its download
\* succeeds (every source of Srcs has a file name of a supported format).
PathOf(src) == ResolveImagePath(src, "png")

\* C13: every successful upload adds a new path to the URL cache, so no path
\* is uploaded successfully twice; an image resolving to a cached path gets
\* the cached URL with no upload; a failure adds nothing to the cache, and
\* an image resolving to a path not in the cache is uploaded (or fails).
UploadedOncePerPath ==
  /\ [](/\ Cardinality(DOMAIN url_cache) = Len(uploads)
        /\ \A q1, q2 \in DOMAIN url_cache : q1 # q2 => url_cache[q1] # url_cache[q2])
  /\ [][(OnImage /\ uploads' # uploads) =>
          /\ PathOf(proc.soup[proc.i].src) \notin DOMAIN url_cache
          /\ DOMAIN url_cache' = DOMAIN url_cache \cup {PathOf(proc.soup[proc.i].src)}
          /\ \A q \in DOMAIN url_cache : url_cache'[q] = url_cache[q]
          /\ Len(uploads') = Len(uploads) + 1
          /\ proc'.soup[proc.i].src = url_cache'[PathOf(proc.soup[proc.i].src)]]_vars
  /\ [][(OnImage /\ proc'.success_list # proc.success_list /\ uploads' = uploads) =>
          /\ PathOf(proc.soup[proc.i].src) \in DOMAIN url_cache
          /\ proc'.soup[proc.i].src = url_cache[PathOf(proc.soup[proc.i].src)]
          /\ url_cache' = url_cache]_vars
  /\ [][(OnImage /\ proc'.fail_list # proc.fail_list) => url_cache' = url_cache]_vars
  /\ [][(/\ OnImage /\ proc' # proc
         /\ proc.soup[proc.i].src # EmptySrc
         /\ ~SkippedAsHosted(proc.soup[proc.i].src)
         /\ PathOf(proc.soup[proc.i].src) \notin DOMAIN url_cache) =>
          (uploads' # uploads \/ proc'.fail_list # proc.fail_list)]_vars
FailedThenUploadedAgain ==
  /\ proc.pc = "returned"
  /\ Len(proc.soup) = 2
  /\ proc.soup[1].orig = Src("", "", <<"img", "a.png">>)
  /\ proc.soup[2].orig = proc.soup[1].orig
  /\ proc.fail_list = <<proc.soup[1].orig>>
  /\ proc.success_list = <<proc.soup[1].orig>>

\* C14: an image whose src points at the media host is passed over: the
\* step changes nothing but the loop position, and in the returned HTML its
\* src and data-src are as they came, it is not removed, it is in neither
\* list and it was never given to upload_image.
HostedImageUntouched ==
  /\ [][(OnImage /\ PointsAtMediaHost(proc.soup[proc.i].src) /\ proc' # proc) =>
          /\ proc' = [proc EXCEPT !.i = @ + 1]
          /\ url_cache' = url_cache
          /\ uploads' = uploads]_vars
  /\ [](proc.pc = "returned" =>
          \A k \in DOMAIN proc.soup :
            PointsAtMediaHost(proc.soup[k].orig) =>
              /\ ~proc.soup[k].removed
              /\ proc.soup[k].src = proc.soup[k].orig
              /\ proc.soup[k].data_src = proc.soup[k].orig
              /\ ~InList(proc.soup[k].orig, proc.success_list)
              /\ ~InList(proc.soup[k].orig, proc.fail_list)
              /\ ~InList(proc.soup[k].orig, uploads))
HostedImageKept ==
  /\ proc.pc = "returned"
  /\ Len(proc.soup) = 2
  /\ PointsAtMediaHost(proc.soup[1].orig)
  /\ proc.soup[1].src = proc.soup[1].orig
  /\ Len(proc.success_list) = 1

\* --------------------------------------------- claims on add_draft's body
\* C15: the body add_draft sends has exactly one article; the article has
\* title, content, need_open_comment and only_fans_can_comment with the
\* arguments' values; it has author, digest, content_source_url and
\* thumb_media_id exactly when the argument is not the empty string, with
\* the argument's value, so never an empty string.
DraftPayloadFields ==
  draft.pc = "built" =>
    /\ Len(draft.data.articles) = 1
    /\ LET art == draft.data.articles[1] IN
       /\ RequiredFields \cup FlagFields \subseteq DOMAIN art
       /\ DOMAIN art \subseteq DraftFields
       /\ \A f \in OptionalFields : f \in DOMAIN art <=> draft.args[f] # ""
       /\ \A f \in DOMAIN art : art[f] = draft.args[f]
       /\ \A f \in OptionalFields \cap DOMAIN art : art[f] # ""
DraftWithAuthorOnly ==
  /\ draft.pc = "built"
  /\ draft.args["author"] = "text"
  /\ draft.args["digest"] = ""
  /\ draft.args["title"] = ""
  /\ DOMAIN draft.data.articles[1] = RequiredFields \cup FlagFields \cup {"author"}

\* ---------------------------------------- claims on the Markdown converter
\* A fenced code block as the Markdown parser (fenced_code) delimits it: it
\* opens on a line of three or more backticks or tildes (an info string may
\* follow) and closes on the first later line that is the same fence, or
\* with the text.
FenceOf(line) ==
  IF StartsWith(line, Backticks4) THEN Backticks4
  ELSE IF StartsWith(line, Backticks3) THEN Backticks3
  ELSE IF StartsWith(line, Tildes3) THEN Tildes3
  ELSE <<>>
Closes(line, fence) == RStrip(line) = fence

\* The lines strictly between the fences of a block, scanning from line k;
\* open is the fence of the block line k is in, or <<>>.
RECURSIVE FencedFrom(_, _, _)
FencedFrom(lines, k, open) ==
  IF k > Len(lines) THEN {}
  ELSE IF open # <<>>
       THEN IF Closes(lines[k], open) THEN FencedFrom(lines, k + 1, <<>>)
            ELSE {k} \cup FencedFrom(lines, k + 1, open)
       ELSE FencedFrom(lines, k + 1, FenceOf(lines[k]))
Fenced(lines) == FencedFrom(lines, 1, <<>>)

\* C16: the preprocessor returns every line inside a fenced code block as
\* it is, and rewrites ~~text~~ to <del>text</del> on the lines that are
\* neither inside a fenced block nor a fence.
FencedLinesKept ==
  pre.pc = "done" =>
    /\ Len(pre.result) = Len(pre.text)
    /\ \A k \in DOMAIN pre.text :
         IF k \in Fenced(pre.text) THEN pre.result[k] = pre.text[k]
         ELSE FenceOf(pre.text[k]) = <<>> => pre.result[k] = SubDel(pre.text[k])

\* C17: the document a convert call returns is the one a new converter of
\* the same theme makes of the call's text and title, whatever calls were
\* made on the converter before, returned or raised.
ConvertDeterministic ==
  conv.pc = "returned" =>
    conv.result = ConvertWith(conv.doc, conv.title, conv.theme_css, {})

\* C18: _process_code_blocks raises on no code block; in the returned
\* document a block whose hint names no lexer, or whose language is not
\* guessed, is a pre with the block style around a code element with the
\* block's code and class, a block whose language is found is highlighted
\* under the same pre style, and the other elements are as parsed.
UnknownLanguageTolerated ==
  /\ [][conv.pc = "code" => conv'.pc = "style"]_vars
  /\ [][(conv.pc = "code" /\ conv'.pc = "style") =>
          /\ DOMAIN conv'.html = DOMAIN conv.html
          /\ \A k \in DOMAIN conv.html :
               IF conv.html[k].tag # "pre" THEN conv'.html[k] = conv.html[k]
               ELSE /\ conv'.html[k].tag = "pre"
                    /\ conv'.html[k].style = PreStyle
                    /\ conv'.html[k].text = conv.html[k].text
                    /\ IF Lexer(conv.html[k].lang, conv.html[k].text) = "ClassNotFound"
                       THEN /\ conv'.html[k].inner = "code"
                            /\ conv'.html[k].lang = conv.html[k].lang
                       ELSE conv'.html[k].inner = "div"]_vars
  /\ [](conv.pc = "returned" =>
          \A k \in DOMAIN conv.doc :
            (conv.doc[k].kind = "code"
               /\ Lexer(conv.doc[k].lang, conv.doc[k].code) = "ClassNotFound") =>
              conv.result.article[k] =
                Elem("pre", conv.doc[k].code, "code", conv.doc[k].lang, PreStyle))
UnknownHintConverted ==
  /\ conv.pc = "returned"
  /\ Len(conv.doc) = 2
  /\ conv.doc[1] = Code("nolang", "print(1)")
  /\ conv.doc[2] = Code("python", "print(1)")
  /\ conv.result.article[1].inner = "code"
  /\ conv.result.article[2].inner = "div"

\* ------------------------------------------------------ claims on the themes
\* The candidates of a name in the search order; the name itself is one
\* only when it ends in .css.
SearchOrder(name) ==
  (IF name.suffix = ".css" THEN <<NamePath(name)>> ELSE <<>>)
    \o <<LocalThemePath(name), CustomPath(name), BuiltinPath(name), DefaultPath>>

\* C20: get_theme_css returns the content of the first candidate that
\* exists, in the order explicit .css path, .themes/<name>.css, the user's
\* custom themes, the built-in <name>.css, the built-in default.css; a name
\* found nowhere gets the default sheet, and the empty string when that is
\* missing too.
ThemeCssFirstCandidate ==
  theme.pc = "done" =>
    LET order == SearchOrder(theme.name)
        found == { k \in DOMAIN order : order[k] \in theme.exists }
    IN /\ found # {} =>
            \E k \in found : /\ \A j \in found : k <= j
                             /\ theme.css = ReadText(order[k])
       /\ found = {} => theme.css = EmptyCss
       /\ (\A k \in DOMAIN order : order[k] # DefaultPath => order[k] \notin theme.exists) =>
            theme.css = IF DefaultPath \in theme.exists THEN ReadText(DefaultPath) ELSE EmptyCss
ThemeFallsBackToDefault ==
  /\ theme.pc = "done"
  /\ theme.name = ThemeName("none", "")
  /\ theme.exists = {DefaultPath}
  /\ theme.css = ReadText(DefaultPath)

\* ------------------------------------------------ claims on the batch run
\* The files whose loop body met a failure (an exception of the image pass
\* is none).
FailedFiles == { k \in DOMAIN batch.events : batch.events[k].fails # "none" }

\* C19: in a batch run every file is attempted once, in order, whatever
\* happened to the files before it; each attempted file is counted in
\* exactly one of success_count and fail_count; at the end the counts add
\* up to the number of files, the summary lists exactly the failed files,
\* and the exit status is non-zero exactly when fail_count > 0.
BatchIsolatesFailures ==
  /\ [](batch.pc \in {"loop", "exited"} =>
          /\ Len(batch.events) = batch.idx - 1
          /\ batch.fail_count = Cardinality(FailedFiles)
          /\ batch.success_count = Len(batch.events) - Cardinality(FailedFiles)
          /\ batch.success_count + batch.fail_count = batch.idx - 1)
  /\ [](batch.pc = "exited" =>
          /\ batch.idx = batch.files + 1
          /\ batch.success_count + batch.fail_count = batch.files
          /\ batch.listed = FailedFiles
          /\ batch.status # 0 <=> batch.fail_count > 0)
  /\ [][(batch.pc = "loop" /\ batch.idx <= batch.files /\ batch' # batch) =>
          /\ batch'.pc = "loop"
          /\ batch'.idx = batch.idx + 1
          /\ batch'.success_count + batch'.fail_count
               = batch.success_count + batch.fail_count + 1]_vars
FailureThenSuccess ==
  /\ batch.pc = "exited"
  /\ batch.files = 3
  /\ batch.events[1].fails = "api"
  /\ batch.events[2].fails = "read"
  /\ batch.events[3].fails = "none"
  /\ batch.success_count = 1
  /\ batch.fail_count = 2
  /\ batch.status = 1

\* ------------------------------------------------ claims on the styling steps
\* The elements of the content, cells included.
AllNodes(html) ==
  UNION { { <<k, c>> : c \in 0..Len(html[k].cells) } : k \in DOMAIN html }
NodeAt(html, pos) == IF pos[2] = 0 THEN html[pos[1]] ELSE html[pos[1]].cells[pos[2]]
Present(html, pos) == pos[1] \in DOMAIN html /\ (pos[2] = 0 \/ pos[2] \in DOMAIN html[pos[1]].cells)
LanguageClasses == {"language-python"}

\* C21: after _clean_html no element has an id, an element that has a class
\* has a language class, every other attribute is as before, and the
\* elements are the same.
ScrubKeepsOnlyLanguageClass ==
  page.pc = "cleaned" =>
    /\ DOMAIN page.html = DOMAIN page.before
    /\ \A pos \in AllNodes(page.before) :
         Present(page.before, pos) =>
           /\ Present(page.html, pos)
           /\ LET old == NodeAt(page.before, pos)
                  new == NodeAt(page.html, pos)
              IN /\ new.tag = old.tag /\ new.text = old.text
                 /\ DOMAIN new.cells = DOMAIN old.cells
                 /\ "id" \notin DOMAIN new.attrs
                 /\ "class" \in DOMAIN new.attrs => new.attrs["class"] \in LanguageClasses
                 /\ \A a \in DOMAIN old.attrs \ {"id", "class"} :
                      a \in DOMAIN new.attrs /\ new.attrs[a] = old.attrs[a]
                 /\ DOMAIN new.attrs \subseteq DOMAIN old.attrs

\* The cells of an element with the given tag.
CellsOf(e, tag) == { c \in DOMAIN e.cells : e.cells[c].tag = tag }

\* C22: in the converted content the table made of a Markdown table with n
\* data rows and m columns has m th and n * m td and no other cell; each th
\* has the header cell style and each td the data cell style, neither of
\* them empty; no step after the parsing changes the number of cells.
TableCellsStyled ==
  /\ [](page.pc = "cleaned" =>
          \A k \in DOMAIN page.doc :
            page.doc[k].kind = "table" =>
              LET t == page.html[k] IN
              /\ t.tag = "table"
              /\ Cardinality(CellsOf(t, "th")) = page.doc[k].m
              /\ Cardinality(CellsOf(t, "td")) = page.doc[k].n * page.doc[k].m
              /\ Len(t.cells) = page.doc[k].m + page.doc[k].n * page.doc[k].m
              /\ \A c \in DOMAIN t.cells :
                   /\ "style" \in DOMAIN t.cells[c].attrs
                   /\ t.cells[c].attrs["style"] # ""
                   /\ t.cells[c].attrs["style"] =
                        IF t.cells[c].tag = "th" THEN ThStyle ELSE TdStyle)
  /\ [][page.pc \in {"images", "tables", "styles", "clean"} =>
          /\ DOMAIN page'.html = DOMAIN page.html
          /\ \A k \in DOMAIN page.html :
               /\ Len(page'.html[k].cells) = Len(page.html[k].cells)
               /\ \A c \in DOMAIN page.html[k].cells :
                    page'.html[k].cells[c].tag = page.html[k].cells[c].tag]_vars
TableConverted ==
  /\ page.pc = "cleaned"
  /\ page.doc[1] = Table(2, 2)
  /\ Len(page.html[1].cells) = 6
  /\ page.html[1].cells[6].attrs["style"] = TdStyle

Configuration == DictV(DumpedItems(cfg.root, cfg.klass))
RECURSIVE StoredAt(_, _)
StoredAt(node, keys) ==
  IF keys = <<>> THEN [found |-> TRUE, value |-> node]
  ELSE IF node.kind = "dict" /\ Head(keys) \in DOMAIN node.items
       THEN StoredAt(node.items[Head(keys)], Tail(keys))
       ELSE [found |-> FALSE, value |-> NoneV]
NonEmptyEnv(env, name) == name \in DOMAIN env /\ env[name] # ""

\* C24: get(key, default) returns the value of a set, non-empty environment
\* variable derived from the key when there is one (the WECHAT_ name before
\* the bare name), otherwise the value stored at the dotted path of the
\* configuration, otherwise the default; get_appid returns a non-empty
\* WECHAT_APPID in preference to the stored appid.
GetFollowsPriority ==
  LET c == cfg.last
      prefixed == EnvName(TRUE, c.key)
      bare == EnvName(FALSE, c.key)
      stored == StoredAt(Configuration, c.key)
  IN /\ c.op = "get" =>
          c.result = IF NonEmptyEnv(c.env, prefixed) THEN StrV(c.env[prefixed])
                     ELSE IF NonEmptyEnv(c.env, bare) THEN StrV(c.env[bare])
                     ELSE IF stored.found THEN stored.value
                     ELSE c.default
     /\ c.op = "get_appid" =>
          c.result = IF NonEmptyEnv(c.env, prefixed) THEN StrV(c.env[prefixed])
                     ELSE stored.value

\* C24 witness: a get whose key has both a non-empty environment variable
\* and a stored value, answered from the environment.
EnvOverridesStored ==
  /\ cfg.last.op = "get"
  /\ NonEmptyEnv(cfg.last.env, EnvName(TRUE, cfg.last.key))
  /\ StoredAt(Configuration, cfg.last.key).found
  /\ cfg.last.result = StrV(cfg.last.env[EnvName(TRUE, cfg.last.key)])
  /\ cfg.last.result # StoredAt(Configuration, cfg.last.key).value

\* C25: after set(k, v), whatever sets came before (on prefixes or
\* extensions of k too), get(k) with no overriding environment variable
\* returns v, and the configuration file holds the whole configuration.
SetThenGet ==
  cfg.last.op = "set" =>
    /\ ~cfg.last.raised
    /\ Get(cfg.root, cfg.klass, NoItems, cfg.last.key, NoneV) = cfg.last.value
    /\ cfg.file = Configuration

\* C30: DEFAULT_CONFIG is never modified, and a Config created with no
\* configuration file reads the original defaults (default.author is the
\* empty string, default.theme is "default").
DefaultsNeverModified ==
  /\ cfg.klass = DefaultSection
  /\ (cfg.last.op = "new" /\ ~cfg.last.had_file) =>
       /\ StoredAt(Configuration, <<"default", "author">>).value = StrV("")
       /\ StoredAt(Configuration, <<"default", "theme">>).value = StrV("default")

\* C26: whenever process_html has rewritten an image's src and data-src,
\* the new value is the hosted URL that uploading this image's own source
\* returned: two images of different sources (different files) never carry
\* the same hosted URL.
RewrittenToOwnUpload ==
  \A k \in DOMAIN proc.soup :
    LET img == proc.soup[k] IN
    img.src # img.orig =>
      /\ img.data_src = img.src
      /\ img.src.id \in DOMAIN uploads
      /\ img.src = HostedUrl(img.src.id)
      /\ uploads[img.src.id] = img.orig

\* The img elements that have a src and do not point at the media host,
\* and how often a src occurs in a list.
ToConsume == { k \in DOMAIN proc.soup :
                 proc.soup[k].orig # EmptySrc /\ ~PointsAtMediaHost(proc.soup[k].orig) }
Occurrences(x, list) == Cardinality({ j \in DOMAIN list : list[j] = x })
Rewritten(k) == \E u \in 1..Len(uploads) : proc.soup[k].src = HostedUrl(u)

\* C27: in the result of process_html every img element that has a src and
\* does not point at the media host has its original src in exactly one of
\* the two lists: the lists together are as long as there are such elements,
\* and a src is in the success list once for each such element that was
\* rewritten to a hosted URL and in the failure list once for each that was
\* not.
EachImageConsumedOnce ==
  proc.pc = "returned" =>
    /\ Len(proc.success_list) + Len(proc.fail_list) = Cardinality(ToConsume)
    /\ \A s \in Srcs :
         /\ Occurrences(s, proc.success_list) =
              Cardinality({ k \in ToConsume : proc.soup[k].orig = s /\ Rewritten(k) })
         /\ Occurrences(s, proc.fail_list) =
              Cardinality({ k \in ToConsume : proc.soup[k].orig = s /\ ~Rewritten(k) })

\* C28: while one token manager alone has acted (no other manager holds a
\* token in memory or was the last to clear the cache), whenever its
\* in-memory token is present the durable cache holds a record with the same
\* token value and the same expires_at.
MemoryMatchesDurable ==
  \A m \in Managers :
    (/\ mem[m].token # NoToken
     /\ \A o \in Managers \ {m} : mem[o] = NoMem /\ cleared # o) =>
      /\ durable.present
      /\ durable.access_token = mem[m].token
      /\ durable.expires_at = mem[m].expires_at

\* C29: whenever a retry-wrapped operation sends a request after the server
\* rejected the call's token (40001 or 42001), the token attached is another
\* one than the rejected token, and a credential exchange has succeeded
\* since the rejection.
ReattemptAttachesNewToken ==
  (Wrapped(call.op) /\ call.pc \in {"send", "resend"} /\ call.rejected # NoToken) =>
    /\ call.attached # call.rejected
    /\ call.exchangedSince


=============================================================================
